---- MODULE Spec2Model ----
(***************************************************************************)
(* Model of the seriatim sequent engine: one sequent (actor) with its      *)
(* mailbox (Queue of capacity 1), its kill channel, its worker goroutine   *)
(* (sequent.run) and a bounded number of client goroutines that issue      *)
(* Call, Cast and Terminate concurrently.  Every blocking channel          *)
(* operation and every store of the running flag is a separate step, so    *)
(* that the races between producers and the termination path are visible.  *)
(* Spec and FairSpec are the sequent, QSpec is the Queue on its own, and   *)
(* TreeSpec is the sequent as a child of an Object of the dbus adapter.    *)
(***************************************************************************)
EXTENDS Integers, Sequences, FiniteSets, TLC

(* ------------------------------ bounds -------------------------------- *)

\* number of client goroutines using the sequent concurrently
NumProcs == 2
\* number of operations the client goroutines issue altogether
MaxOps == 3
\* number of operations they issue altogether in the fairly scheduled runs
MaxLiveOps == 2
\* NewQueue is called with the limits -MaxLimit..MaxLimit in the queue's
\* own runs
MaxLimit == 2

Procs == 1..NumProcs

(* ------------------------- errors and values -------------------------- *)

\* every Go error value of the model has this shape
Err(kind, n1, n2, t1, t2) ==
    [kind |-> kind, n1 |-> n1, n2 |-> n2, t1 |-> t1, t2 |-> t2]

NoErr == Err("nil", 0, 0, "", "")
ErrSequentStop == Err("Sequent stopped", 0, 0, "", "")
ErrSequentDied == Err("Sequent died", 0, 0, "", "")
ErrUnknownMethod == Err("Unknown method", 0, 0, "", "")

\* runtime faults raised by the Go runtime; all of them are error values
ErrIndexOutOfRange == Err("runtime error: index out of range", 0, 0, "", "")
ErrCloseNilChannel == Err("close of nil channel", 0, 0, "", "")
ErrCloseClosedChannel == Err("close of closed channel", 0, 0, "", "")
ErrNilDeref == Err("runtime error: invalid memory address or nil pointer dereference", 0, 0, "", "")
ErrSendOnClosed == Err("send on closed channel", 0, 0, "", "")

\* a panic value: rec.(error) succeeds iff isErr
Fault(e) == [isErr |-> TRUE, val |-> e]

\* the error a client hands to Terminate: errors.New makes a distinct
\* error value on every call, here told apart by the caller and its count
TermReason(p, n) == Err("errors.New", p, n, "", "")

\* argument values, each with its dynamic type
BoolTrue == [type |-> "bool", v |-> "true"]
StrFalse == [type |-> "string", v |-> "false"]

\* the Call and Cast invocations the clients issue: those of the command
\* generators of the supervised-sequent test, the Call of the method-table
\* test, and a name nothing registers
CallCommands ==
    { <<"Public", <<BoolTrue>>>>, <<"Public", << >>>>, <<"Public", <<StrFalse>>>>,
      <<"private", << >>>>, <<"Crash", << >>>>, <<"NotFunction", << >>>> }

CastCommands ==
    { <<"Broadcast", <<BoolTrue>>>>, <<"Broadcast", << >>>>,
      <<"Broadcast", <<StrFalse>>>>, <<"private", << >>>>, <<"Crash", << >>>>,
      <<"Missing", << >>>> }

(* --------------------------- method table ----------------------------- *)

\* the method set of the state value (*value in the tests): NumIn counts
\* the receiver, params are the declared parameters after the receiver
ValueMethods ==
    { [name |-> "Public",    exported |-> TRUE,  isFunc |-> TRUE, recvOK |-> TRUE,
       numIn |-> 2, params |-> <<"bool">>, body |-> "identity"],
      [name |-> "private",   exported |-> FALSE, isFunc |-> TRUE, recvOK |-> TRUE,
       numIn |-> 1, params |-> << >>,      body |-> "none"],
      [name |-> "Crash",     exported |-> TRUE,  isFunc |-> TRUE, recvOK |-> TRUE,
       numIn |-> 1, params |-> << >>,      body |-> "panic"],
      [name |-> "Broadcast", exported |-> TRUE,  isFunc |-> TRUE, recvOK |-> TRUE,
       numIn |-> 2, params |-> <<"bool">>, body |-> "none"] }

\* entries a caller of NewSupervisedSequentTable adds to the table: a value
\* that is not a function, a function without parameters and a function
\* whose first parameter the state value does not fit
TableEntries ==
    { [name |-> "NotFunction",   exported |-> TRUE, isFunc |-> FALSE, recvOK |-> FALSE,
       numIn |-> 0, params |-> << >>, body |-> "none"],
      [name |-> "NoParameter",   exported |-> TRUE, isFunc |-> TRUE,  recvOK |-> FALSE,
       numIn |-> 0, params |-> << >>, body |-> "none"],
      [name |-> "NotAssignable", exported |-> TRUE, isFunc |-> TRUE,  recvOK |-> FALSE,
       numIn |-> 1, params |-> << >>, body |-> "none"] }

\* a getMethods that keeps the unexported methods
getMethodsAll == ValueMethods

\* getMethods: the exported methods of the receiver
getMethods == { m \in ValueMethods : m.exported }

\* convertMethods: keep functions with a receiver slot the value fits
convertMethods(methods) ==
    { m \in methods : m.isFunc /\ m.numIn >= 1 /\ m.recvOK }

\* the table handed to NewSupervisedSequentTable
Table == getMethods \cup TableEntries

\* a.methods after init
Methods == convertMethods(Table)

MethodNames == { m.name : m \in ValueMethods }

Lookup(name) == CHOOSE m \in Methods : m.name = name

\* a Go value of dynamic type t is assignable to a parameter of type p
AssignableTo(t, p) == t = p

\* processMethodArguments: NoErr, or the first validation error
RECURSIVE ArgError(_, _, _)
ArgError(m, args, i) ==
    IF i > Len(args) THEN NoErr
    ELSE IF ~AssignableTo(args[i].type, m.params[i])
         THEN Err("not assignable", i - 1, 0, args[i].type, m.params[i])
         ELSE ArgError(m, args, i + 1)

processMethodArguments(m, args) ==
    IF Len(args) + 1 # m.numIn
    THEN Err("Not enough arguments", m.numIn, Len(args) + 1, "", "")
    ELSE ArgError(m, args, 1)

\* newRequest: the error it returns (NoErr when the request is built)
newRequestErr(name, args) ==
    IF ~(\E m \in Methods : m.name = name) THEN ErrUnknownMethod
    ELSE processMethodArguments(Lookup(name), args)

\* what the handler returns when it completes (method.Call)
HandlerReturns(m, args) ==
    IF m.body = "identity" THEN args ELSE << >>

\* a processMethodReturns that drops the values
processMethodReturnsEmpty(values) == << >>

\* processMethodReturns: the values unchanged, as interface{} values
processMethodReturns(values) == [i \in 1..Len(values) |-> values[i]]

(* ------------------------------ requests ------------------------------ *)

\* request identities: the n-th operation of client p
RIds == Procs \X (1..MaxOps)
NilPort == <<0, 0>>

\* the nil *request (run's req before the first dequeue)
NoReq == [rid |-> <<0, 0>>, kind |-> "nil", method |-> "", args |-> << >>,
          reply |-> NilPort]

\* a Call that uses one reply channel for all requests
ReplyChanShared(rid) == <<1, 1>>

\* replych := make(chan reply): every Call makes a channel of its own,
\* named here after the request
ReplyChan(rid) == rid

\* Call gives the request its reply channel, Cast gives it nil
Request(rid, kind, name, args) ==
    [rid |-> rid, kind |-> kind, method |-> name, args |-> args,
     reply |-> IF kind = "call" THEN ReplyChan(rid) ELSE NilPort]

\* a reply channel nothing refers to any more is garbage: the model forgets
\* its state
Collect(ports, ch) == IF ch = NilPort THEN ports ELSE [ports EXCEPT ![ch] = "none"]

\* what a Call, Cast or Terminate of client p returned: the request, whether
\* it began after the supervisor was notified, the values and the error
Returned(p, r, l, vals, err) ==
    [p |-> p, req |-> r, late |-> l, vals |-> vals, err |-> err]

\* no operation returned in the last step
NoRet == Returned(0, NoReq, FALSE, << >>, NoErr)

\* NewQueue(1) in sequent.init
QueueCap == 1

\* reflect.ValueOf(a.val).Pointer(): the address of the state value
ValPointer == 49152

\* a sequent made by NewSequent, which has no supervisor
NoSupervisor == FALSE

\* NewSupervisedSequentTable: the sequent has a supervisor
HasSupervisor == TRUE

\* a Call that reports a closed reply channel as a stopped sequent
ClosedReplyErrStop == ErrSequentStop

\* the error Call returns when its reply channel is closed
ClosedReplyErr == ErrSequentDied

\* a Cast that reports its enqueued request as died
CastReturnDied == ErrSequentDied

\* the error Cast returns once its request is in the mailbox
CastReturn == NoErr

\* a Call or Cast that goes on to its send after newRequest failed
AfterRejectEnqueue == "enqueue"

\* where Call and Cast are after newRequest failed: they have returned
AfterReject == "idle"

\* the value the deferred function of run leaves in the running flag if it
\* skips its store
DeferStoreSkipped == TRUE

\* a.running.Store(false) in the deferred function of run
DeferStore == FALSE

\* an init that leaves the running flag false
InitRunningFalse == FALSE

\* the value init stores in the running flag
InitRunning == TRUE

VARIABLES
    pc,        \* client goroutines: position in Call / Cast / Terminate
    nops,      \* number of operations each client has started
    cur,       \* the request (or Terminate) a client is executing or executed last
    curReason, \* the reason of the client's Terminate
    late,      \* the client's operation started after the supervisor was notified
    ret,       \* the operation that returned in the last step, with its results
    queue,     \* a.queue.queue: buffered messages
    closed,    \* a.queue.queue has been closed
    running,   \* a.running
    port,      \* state of each request's reply channel
    wpc,       \* worker goroutine: position in run
    req,       \* run's local req
    wreason,   \* the reason / recovered error in the worker's hands
    inDefer,   \* the worker is inside run's deferred function
    executing, \* number of handlers currently inside method.Call
    enq,       \* requests in the order they entered the mailbox
    handled,   \* requests in the order their handlers were invoked
    purged,    \* requests in the order Purged() was invoked on them
    notified,  \* the SequentTerminated upcalls, in order
    deaths,    \* kill reasons received and faults recovered by the worker
    crashed,   \* the process died of an unrecovered panic (NoErr: alive)
    limit,     \* the limit NewQueue was called with
    qptr,      \* the *Queue NewQueue returned
    val,       \* a.val: the address of the state value
    objects,   \* o.objects of the Object o that supervises the sequent
    lock,      \* o.objects.writelk: 0 when free, else the goroutine holding it
    okind,     \* what o is: the root, a placeholder or an object with a sequent
    inParent   \* o is an entry of its parent's objects

vars == <<pc, nops, cur, curReason, late, ret, queue, closed, running, port,
          wpc, req, wreason, inDefer, executing, enq, handled, purged,
          notified, deaths, crashed, limit, qptr, val, objects, lock, okind,
          inParent>>

\* the Object that supervises the sequent in the object tree
treeVars == <<objects, lock, okind, inParent>>

\* what no step of the sequent assigns: the fields set at construction and
\* the object tree around it
objVars == <<limit, qptr, val, treeVars>>

procVars == <<pc, nops, cur, curReason, late>>
workerVars == <<wpc, req, wreason, inDefer>>
ghostVars == <<enq, handled, purged, deaths>>

Alive == crashed = NoErr

\* number of operations started so far
RECURSIVE SumTo(_, _)
SumTo(f, n) == IF n = 0 THEN 0 ELSE f[n] + SumTo(f, n - 1)

Started == SumTo(nops, NumProcs)

\* a Running that never sees the worker's store
RunningStale == TRUE

\* sequent.Running
Running == running

\* an Id that moves when the sequent handles a request
IdMoved == val + Len(handled)

\* sequent.Id
Id == val

\* the nil *Queue
NilQueue == [nil |-> TRUE, cap |-> 0]

\* a NewQueue that accepts every limit
NewQueueAny(n) == [nil |-> FALSE, cap |-> n]

\* NewQueue: nil for a limit below 1, else a queue with a channel of that
\* capacity
NewQueue(n) == IF n < 1 THEN NilQueue ELSE [nil |-> FALSE, cap |-> n]

\* a drain whose receive is never ready
RecvReadyNever == FALSE

\* a receive that is ready only when a message is buffered
RecvReadyBuffered == queue # << >>

\* <-q.queue can proceed: a message is buffered, or the channel is closed
RecvReady == queue # << >> \/ closed

\* Queue.Len
QLen == Len(queue)

\* a Cap that reports the number of buffered messages
QCapLen == Len(queue)

\* Queue.Cap
QCap == qptr.cap

\* a channel that always accepts a send
HasRoomAlways == TRUE

\* a send on q.queue can proceed: the buffer is not full
HasRoom == QLen < QCap


Init ==
    /\ pc = [p \in Procs |-> "idle"]
    /\ nops = [p \in Procs |-> 0]
    /\ cur = [p \in Procs |-> NoReq]
    /\ curReason = [p \in Procs |-> NoErr]
    /\ late = [p \in Procs |-> FALSE]
    /\ ret = NoRet
    /\ queue = << >>
    /\ closed = FALSE
    /\ running = InitRunning
    /\ port = [r \in RIds |-> "none"]
    /\ wpc = "select"
    /\ req = NoReq
    /\ wreason = NoErr
    /\ inDefer = FALSE
    /\ executing = 0
    /\ enq = << >>
    /\ handled = << >>
    /\ purged = << >>
    /\ notified = << >>
    /\ deaths = << >>
    /\ crashed = NoErr
    /\ limit = QueueCap
    /\ qptr = NewQueue(limit)
    /\ val = ValPointer
    /\ objects = << >>
    /\ lock = 0
    /\ okind = "root"
    /\ inParent = FALSE

(* ------------------------- client goroutines -------------------------- *)

\* client p's operation returns: p forgets its request, whose reply
\* channel is garbage unless run's req still refers to it
Leave(p) ==
    /\ pc' = [pc EXCEPT ![p] = "idle"]
    /\ cur' = [cur EXCEPT ![p] = NoReq]
    /\ curReason' = [curReason EXCEPT ![p] = NoErr]
    /\ late' = [late EXCEPT ![p] = FALSE]

\* the clients are interchangeable: they are numbered in the order in
\* which they issue their first operation
MayStart(p) ==
    /\ pc[p] = "idle"
    /\ Started < MaxOps
    /\ IF p = 1 THEN TRUE ELSE nops[p - 1] > 0

\* a Call / Cast that reads the running flag before it builds the request
RejectionRunningFirst(err) == IF ~Running THEN ErrSequentStop ELSE err

\* the error with which Call / Cast return before they touch the mailbox
\* (NoErr: they go on): the error of newRequest if it has one, else
\* ErrSequentStop if the running flag is false
Rejection(err) ==
    IF err # NoErr THEN err
    ELSE IF ~Running THEN ErrSequentStop
    ELSE NoErr

\* Call / Cast up to the send on the mailbox: make the reply channel (Call
\* only), build the request with newRequest and return its error if it has
\* one, then read the running flag and return ErrSequentStop if it is false.
\* Only the read of the flag touches shared state, so this is one step.
Start(p, kind, name, args) ==
    LET rid == <<p, nops[p] + 1>>
        r == Request(rid, kind, name, args)
        isLate == notified # << >>
        err == newRequestErr(name, args)
    IN  /\ Alive
        /\ MayStart(p)
        /\ nops' = [nops EXCEPT ![p] = @ + 1]
        /\ IF Rejection(err) # NoErr
           THEN /\ ret' = Returned(p, r, isLate, << >>, Rejection(err))
                /\ pc' = IF err # NoErr
                         THEN [pc EXCEPT ![p] = AfterReject] ELSE pc
                /\ UNCHANGED <<cur, late, port>>
           ELSE /\ ret' = NoRet
                /\ pc' = [pc EXCEPT ![p] = "enqueue"]
                /\ cur' = [cur EXCEPT ![p] = r]
                /\ late' = [late EXCEPT ![p] = isLate]
                /\ port' = IF kind = "call"
                           THEN [port EXCEPT ![r.reply] = "open"] ELSE port
        /\ UNCHANGED <<objVars, curReason, queue, closed, running, workerVars,
                       executing, ghostVars, notified, crashed>>

CallStart(p) ==
    \E c \in CallCommands : Start(p, "call", c[1], c[2])

CastStart(p) ==
    \E c \in CastCommands : Start(p, "cast", c[1], c[2])

\* a.queue.Enqueue() <- req on an open channel with room in its buffer;
\* Cast returns nil here, Call goes on to wait for its reply
Enqueue(p) ==
    /\ Alive
    /\ pc[p] = "enqueue"
    /\ ~closed
    /\ HasRoom
    /\ queue' = Append(queue, cur[p])
    /\ enq' = Append(enq, cur[p].rid)
    /\ IF cur[p].kind = "call"
       THEN /\ pc' = [pc EXCEPT ![p] = "await"]
            /\ ret' = NoRet
            /\ UNCHANGED <<cur, curReason, late>>
       ELSE /\ Leave(p)
            /\ ret' = Returned(p, cur[p], late[p], << >>, CastReturn)
    /\ UNCHANGED <<objVars, nops, closed, running, port, workerVars, executing,
                   handled, purged, deaths, notified, crashed>>

\* a.queue.Enqueue() <- req on a closed channel: the send panics in the
\* client goroutine, which nothing recovers
EnqueueClosed(p) ==
    /\ Alive
    /\ pc[p] = "enqueue"
    /\ closed
    /\ pc' = [pc EXCEPT ![p] = "panicked"]
    /\ crashed' = ErrSendOnClosed
    /\ ret' = NoRet
    /\ UNCHANGED <<objVars, nops, cur, curReason, late, queue, closed, running,
                   port, workerVars, executing, ghostVars, notified>>

\* reply, ok := <-replych with the channel closed: return ErrSequentDied
AwaitClosed(p) ==
    /\ Alive
    /\ pc[p] = "await"
    /\ port[cur[p].reply] = "closed"
    /\ Leave(p)
    /\ ret' = Returned(p, cur[p], late[p], << >>, ClosedReplyErr)
    /\ port' = IF req.rid = cur[p].rid THEN port ELSE Collect(port, cur[p].reply)
    /\ UNCHANGED <<objVars, nops, queue, closed, running, workerVars, executing,
                   ghostVars, notified, crashed>>

\* Terminate(reason) up to the send on the kill channel
TerminateStart(p) ==
    LET reason == TermReason(p, nops[p] + 1) IN
        /\ Alive
        /\ MayStart(p)
        /\ nops' = [nops EXCEPT ![p] = @ + 1]
        /\ cur' = [cur EXCEPT ![p] =
                      [NoReq EXCEPT !.rid = <<p, nops[p] + 1>>, !.kind = "terminate"]]
        /\ curReason' = [curReason EXCEPT ![p] = reason]
        /\ late' = [late EXCEPT ![p] = notified # << >>]
        /\ pc' = [pc EXCEPT ![p] = "kill"]
        /\ ret' = NoRet
        /\ UNCHANGED <<objVars, queue, closed, running, port, workerVars, executing,
                       ghostVars, notified, crashed>>

(* -------------------------- worker goroutine -------------------------- *)

\* a receive that leaves the message it read in the buffer
RecvRestKeep(q) == q

\* the buffer after a receive took its first message
RecvRest(q) == Tail(q)

\* a worker that starts the handler and goes back to its select at once
AfterInvokeAsync == "select"

\* where run is after it entered req.method.Call: inside the handler,
\* until it returns or panics
AfterInvoke == "handler"

\* a terminate that stops the queue without notifying the supervisor first
TerminateEntryStop == "drain"

\* sequent.terminate begins with the supervisor upcall, Queue.Stop follows
TerminateEntry == "notify"

\* a close() that leaves the channel open
PortLeaveOpen(st) == st

\* a receive on the kill channel that yields the zero error
KillValueZero(p) == NoErr

\* reason := <-a.kill: the value client p is sending
KillValue(p) == curReason[p]

\* err, ok := rec.(error); if !ok { err = fmt.Errorf("%s", rec) }
RecoverErr(rec) ==
    IF rec.isErr THEN rec.val ELSE Err("fmt.Errorf", 0, 0, rec.val.kind, "")

\* a reply channel after close()
PortClose(st) == IF st = "open" THEN "closed" ELSE "sent+closed"

\* select, case msg, ok := <-a.queue.Dequeue() with a message buffered
\* (a closed channel still delivers what its buffer holds): req = msg, and
\* processRequest enters the handler with req.method.Call(req.args)
Dequeue ==
    /\ Alive
    /\ wpc = "select"
    /\ queue # << >>
    /\ req' = Head(queue)
    /\ queue' = RecvRest(queue)
    /\ handled' = Append(handled, Head(queue).rid)
    /\ executing' = executing + 1
    /\ wpc' = AfterInvoke
    /\ port' = IF \E p \in Procs : cur[p].rid = req.rid
               THEN port ELSE Collect(port, req.reply)
    /\ ret' = NoRet
    /\ UNCHANGED <<objVars, procVars, closed, running, wreason, inDefer, enq, purged,
                   deaths, notified, crashed>>

\* select, case msg, ok := <-a.queue.Dequeue() on the closed, empty channel:
\* break loop; run returns and its deferred function finds nothing to recover
DequeueClosed ==
    /\ Alive
    /\ wpc = "select"
    /\ queue = << >>
    /\ closed
    /\ wpc' = "exited"
    /\ ret' = NoRet
    /\ UNCHANGED <<objVars, procVars, queue, closed, running, port, req, wreason,
                   inDefer, executing, ghostVars, notified, crashed>>

\* select, case reason := <-a.kill: rendezvous with a client blocked in
\* Terminate, which returns
KillRecv ==
    \E p \in Procs :
        /\ Alive
        /\ wpc = "select"
        /\ pc[p] = "kill"
        /\ wreason' = KillValue(p)
        /\ deaths' = Append(deaths, [cause |-> "kill", reason |-> KillValue(p)])
        /\ Leave(p)
        /\ ret' = Returned(p, cur[p], late[p], << >>, NoErr)
        /\ wpc' = "kill_store"
        /\ UNCHANGED <<objVars, nops, queue, closed, running, port, req, inDefer,
                       executing, enq, handled, purged, notified, crashed>>

\* a.running.Store(false) of the kill case
KillStore ==
    /\ Alive
    /\ wpc = "kill_store"
    /\ running' = FALSE
    /\ wpc' = TerminateEntry
    /\ ret' = NoRet
    /\ UNCHANGED <<objVars, procVars, queue, closed, port, req, wreason, inDefer,
                   executing, ghostVars, notified, crashed>>

\* the handler of a Cast request returns: there is no reply channel and
\* run goes back to its select
HandlerReturn ==
    /\ Alive
    /\ wpc = "handler"
    /\ Lookup(req.method).body # "panic"
    /\ req.reply = NilPort
    /\ executing' = executing - 1
    /\ wpc' = "select"
    /\ ret' = NoRet
    /\ UNCHANGED <<objVars, procVars, queue, closed, running, port, req, wreason,
                   inDefer, ghostVars, notified, crashed>>

\* the handler of a Call request returns and processRequest sends
\* req.reply <- reply{returns}: the channel is unbuffered, the send meets
\* the receive of the caller, whose Call returns
\* processMethodReturns(returns)
ReplySend ==
    \E p \in Procs :
    /\ Alive
    /\ wpc = "handler"
    /\ Lookup(req.method).body # "panic"
    /\ req.reply # NilPort
    /\ pc[p] = "await"
    /\ cur[p].reply = req.reply
    /\ port[req.reply] = "open"
    /\ executing' = executing - 1
    /\ port' = [port EXCEPT ![req.reply] = "sent"]
    /\ Leave(p)
    /\ ret' = Returned(p, cur[p], late[p],
                       processMethodReturns(
                           HandlerReturns(Lookup(req.method), req.args)), NoErr)
    /\ wpc' = "select"
    /\ UNCHANGED <<objVars, nops, queue, closed, running, req, wreason, inDefer,
                   ghostVars, notified, crashed>>

\* the handler panics (Crash indexes past the end of a nil slice); run's
\* deferred function recovers the fault and does a.running.Store(false)
HandlerPanic ==
    /\ Alive
    /\ wpc = "handler"
    /\ Lookup(req.method).body = "panic"
    /\ executing' = executing - 1
    /\ wreason' = RecoverErr(Fault(ErrIndexOutOfRange))
    /\ deaths' = Append(deaths, [cause |-> "handler",
                                 reason |-> RecoverErr(Fault(ErrIndexOutOfRange))])
    /\ inDefer' = TRUE
    /\ running' = DeferStore
    /\ wpc' = "rec_close"
    /\ ret' = NoRet
    /\ UNCHANGED <<objVars, procVars, queue, closed, port, req, enq, handled,
                   purged, notified, crashed>>

\* a panic inside Queue.Stop was recovered: deferred function,
\* a.running.Store(false)
RecoverStore ==
    /\ Alive
    /\ wpc = "recover"
    /\ running' = DeferStore
    /\ wpc' = "rec_close"
    /\ ret' = NoRet
    /\ UNCHANGED <<objVars, procVars, queue, closed, port, req, wreason, inDefer,
                   executing, ghostVars, notified, crashed>>

\* deferred function, if req.reply != nil { close(req.reply) }: req is nil
\* when nothing was dequeued yet, and then req.reply faults inside the
\* deferred function; closing a closed channel faults as well
RecoverClose ==
    /\ Alive
    /\ wpc = "rec_close"
    /\ IF req = NoReq
       THEN /\ crashed' = ErrNilDeref
            /\ wpc' = "panicked"
            /\ port' = port
       ELSE IF req.reply = NilPort
       THEN /\ wpc' = TerminateEntry
            /\ UNCHANGED <<port, crashed>>
       ELSE IF port[req.reply] \in {"closed", "sent+closed"}
       THEN /\ crashed' = ErrCloseClosedChannel
            /\ wpc' = "panicked"
            /\ port' = port
       ELSE /\ port' = [port EXCEPT ![req.reply] = PortClose(@)]
            /\ wpc' = TerminateEntry
            /\ crashed' = crashed
    /\ ret' = NoRet
    /\ UNCHANGED <<objVars, procVars, queue, closed, running, req, wreason, inDefer,
                   executing, ghostVars, notified>>

\* terminate: if a.supervisor != nil { a.supervisor.SequentTerminated(reason, a.Id()) }
Notify ==
    /\ Alive
    /\ wpc = "notify"
    /\ notified' = IF HasSupervisor
                   THEN Append(notified, [reason |-> wreason, id |-> Id])
                   ELSE notified
    /\ wpc' = "drain"
    /\ ret' = NoRet
    /\ UNCHANGED <<objVars, procVars, queue, closed, running, port, req, wreason,
                   inDefer, executing, ghostVars, crashed>>

\* a panic raised in the worker by fault f: outside the deferred function
\* it is recovered there, inside it nothing recovers it
WorkerPanics(f) ==
    IF inDefer
    THEN /\ crashed' = f
         /\ wpc' = "panicked"
         /\ UNCHANGED <<wreason, inDefer, deaths>>
    ELSE /\ wreason' = RecoverErr(Fault(f))
         /\ deaths' = Append(deaths, [cause |-> "purge",
                                      reason |-> RecoverErr(Fault(f))])
         /\ inDefer' = TRUE
         /\ wpc' = "recover"
         /\ crashed' = crashed

\* Queue.drain, case m := <-q.queue with a message buffered: m.Purged()
\* closes the reply channel; close of the nil channel of a Cast panics
DrainPurge ==
    LET m == Head(queue) IN
    /\ Alive
    /\ wpc = "drain"
    /\ queue # << >>
    /\ queue' = RecvRest(queue)
    /\ purged' = Append(purged, m.rid)
    /\ IF m.reply = NilPort
       THEN /\ WorkerPanics(ErrCloseNilChannel)
            /\ port' = port
       ELSE IF port[m.reply] # "open"
       THEN /\ WorkerPanics(ErrCloseClosedChannel)
            /\ port' = port
       ELSE /\ port' = [port EXCEPT ![m.reply] = PortClose(@)]
            /\ UNCHANGED <<wpc, wreason, inDefer, deaths, crashed>>
    /\ ret' = NoRet
    /\ UNCHANGED <<objVars, procVars, closed, running, req, executing, enq, handled,
                   notified>>

\* Queue.drain, case m := <-q.queue on the closed, empty channel: the
\* receive yields the nil Message and m.Purged() dereferences nil
DrainClosed ==
    /\ Alive
    /\ wpc = "drain"
    /\ queue = << >>
    /\ closed
    /\ WorkerPanics(ErrNilDeref)
    /\ ret' = NoRet
    /\ UNCHANGED <<objVars, procVars, queue, closed, running, port, req, executing,
                   enq, handled, purged, notified>>

\* Queue.drain, default: nothing buffered, drain returns
DrainDone ==
    /\ Alive
    /\ wpc = "drain"
    /\ ~RecvReady
    /\ wpc' = "close"
    /\ ret' = NoRet
    /\ UNCHANGED <<objVars, procVars, queue, closed, running, port, req, wreason,
                   inDefer, executing, ghostVars, notified, crashed>>

\* Queue.Stop, close(q.queue); terminate returns: to the select loop in the
\* kill case, to the end of the goroutine in the deferred function
StopClose ==
    /\ Alive
    /\ wpc = "close"
    /\ IF closed
       THEN /\ WorkerPanics(ErrCloseClosedChannel)
            /\ closed' = closed
       ELSE /\ closed' = TRUE
            /\ wpc' = IF inDefer THEN "exited" ELSE "select"
            /\ UNCHANGED <<wreason, inDefer, deaths, crashed>>
    /\ ret' = NoRet
    /\ UNCHANGED <<objVars, procVars, queue, running, port, req, executing, enq,
                   handled, purged, notified>>

(* --------------------------- specification ---------------------------- *)

ClientStep(p) ==
    \/ Enqueue(p)
    \/ EnqueueClosed(p)
    \/ AwaitClosed(p)

WorkerStep ==
    \/ Dequeue
    \/ DequeueClosed
    \/ KillRecv
    \/ KillStore
    \/ HandlerReturn
    \/ HandlerPanic
    \/ ReplySend
    \/ RecoverStore
    \/ RecoverClose
    \/ Notify
    \/ DrainPurge
    \/ DrainClosed
    \/ DrainDone
    \/ StopClose

Next ==
    \/ \E p \in Procs : CallStart(p)
    \/ \E p \in Procs : CastStart(p)
    \/ \E p \in Procs : TerminateStart(p)
    \/ \E p \in Procs : ClientStep(p)
    \/ WorkerStep

Spec == Init /\ [][Next]_vars

\* the steps of runs in which the clients issue MaxLiveOps operations
FairNext ==
    \/ \E p \in Procs : Started < MaxLiveOps /\ CallStart(p)
    \/ \E p \in Procs : Started < MaxLiveOps /\ CastStart(p)
    \/ \E p \in Procs : Started < MaxLiveOps /\ TerminateStart(p)
    \/ \E p \in Procs : ClientStep(p)
    \/ WorkerStep

\* the Go scheduler runs every goroutine that can take a step
FairSpec ==
    /\ Init
    /\ [][FairNext]_vars
    /\ WF_vars(WorkerStep)
    /\ \A p \in Procs : WF_vars(ClientStep(p))

(* ----------------------- the queue on its own ------------------------- *)

\* The Queue driven as in the queue test: NewQueue(limit), producer
\* goroutines that send messages whose Purged() does nothing, and one owner
\* goroutine that receives from Dequeue() and calls Stop once.  pc, nops
\* and cur are the producers, wpc is the owner, enq, handled and purged log
\* the messages sent, received and purged.

\* msg(value): a Message that is not a request
Msg(rid) == [NoReq EXCEPT !.rid = rid, !.kind = "msg"]

\* msg, ok := <-Dequeue() with ok false
failmsg == [NoReq EXCEPT !.kind = "fail"]

\* the fields of the sequent, which the queue's own runs do not have
seqVars == <<curReason, late, running, port, req, wreason, inDefer,
             executing, notified, deaths, val, treeVars>>

QInit ==
    /\ limit \in (0 - MaxLimit)..MaxLimit
    /\ qptr = NewQueue(limit)
    /\ queue = << >>
    /\ closed = FALSE
    /\ pc = [p \in Procs |-> "idle"]
    /\ nops = [p \in Procs |-> 0]
    /\ cur = [p \in Procs |-> NoReq]
    /\ ret = NoRet
    /\ wpc = "select"
    /\ enq = << >>
    /\ handled = << >>
    /\ purged = << >>
    /\ crashed = NoErr
    /\ curReason = [p \in Procs |-> NoErr]
    /\ late = [p \in Procs |-> FALSE]
    /\ running = FALSE
    /\ port = [r \in RIds |-> "none"]
    /\ req = NoReq
    /\ wreason = NoErr
    /\ inDefer = FALSE
    /\ executing = 0
    /\ notified = << >>
    /\ deaths = << >>
    /\ val = 0
    /\ objects = << >>
    /\ lock = 0
    /\ okind = "root"
    /\ inParent = FALSE

\* producer p is about to execute q.Enqueue() <- msg(value)
QEnqueueStart(p) ==
    /\ Alive
    /\ ~qptr.nil
    /\ MayStart(p)
    /\ nops' = [nops EXCEPT ![p] = @ + 1]
    /\ cur' = [cur EXCEPT ![p] = Msg(<<p, nops[p] + 1>>)]
    /\ pc' = [pc EXCEPT ![p] = "enqueue"]
    /\ ret' = NoRet
    /\ UNCHANGED <<queue, closed, wpc, enq, handled, purged, crashed,
                   limit, qptr, seqVars>>

\* the send of producer p completes: the channel is open and has room
QSend(p) ==
    /\ Alive
    /\ pc[p] = "enqueue"
    /\ ~closed
    /\ HasRoom
    /\ queue' = Append(queue, cur[p])
    /\ enq' = Append(enq, cur[p].rid)
    /\ pc' = [pc EXCEPT ![p] = "idle"]
    /\ cur' = [cur EXCEPT ![p] = NoReq]
    /\ ret' = Returned(p, cur[p], FALSE, << >>, NoErr)
    /\ UNCHANGED <<nops, closed, wpc, handled, purged, crashed, limit, qptr,
                   seqVars>>

\* the send of producer p finds the channel closed, or the channel is
\* closed while p is blocked in its send: the send panics
QSendClosed(p) ==
    /\ Alive
    /\ pc[p] = "enqueue"
    /\ closed
    /\ pc' = [pc EXCEPT ![p] = "panicked"]
    /\ crashed' = ErrSendOnClosed
    /\ ret' = NoRet
    /\ UNCHANGED <<nops, cur, queue, closed, wpc, enq, handled, purged,
                   limit, qptr, seqVars>>

\* msg, ok := <-q.Dequeue() with a message buffered
QDequeue ==
    /\ Alive
    /\ wpc = "select"
    /\ queue # << >>
    /\ queue' = RecvRest(queue)
    /\ handled' = Append(handled, Head(queue).rid)
    /\ ret' = Returned(0, Head(queue), FALSE, << >>, NoErr)
    /\ UNCHANGED <<pc, nops, cur, closed, wpc, enq, purged, crashed, limit,
                   qptr, seqVars>>

\* msg, ok := <-q.Dequeue() on the closed, empty channel: ok is false
QDequeueClosed ==
    /\ Alive
    /\ wpc = "select"
    /\ queue = << >>
    /\ closed
    /\ ret' = Returned(0, failmsg, FALSE, << >>, NoErr)
    /\ UNCHANGED <<pc, nops, cur, queue, closed, wpc, enq, handled, purged,
                   crashed, limit, qptr, seqVars>>

\* the owner calls q.Stop(), once
QStopStart ==
    /\ Alive
    /\ ~qptr.nil
    /\ wpc = "select"
    /\ ~closed
    /\ wpc' = "drain"
    /\ ret' = NoRet
    /\ UNCHANGED <<pc, nops, cur, queue, closed, enq, handled, purged,
                   crashed, limit, qptr, seqVars>>

\* Queue.drain, case m := <-q.queue with a message buffered: m.Purged(),
\* which returns, and drain goes round its loop
QDrainPurge ==
    /\ Alive
    /\ wpc = "drain"
    /\ queue # << >>
    /\ queue' = RecvRest(queue)
    /\ purged' = Append(purged, Head(queue).rid)
    /\ ret' = NoRet
    /\ UNCHANGED <<pc, nops, cur, closed, wpc, enq, handled, crashed, limit,
                   qptr, seqVars>>

\* Queue.drain's default branch and close(q.queue) are the steps DrainDone
\* and StopClose of the sequent's worker
QNext ==
    \/ \E p \in Procs : QEnqueueStart(p)
    \/ \E p \in Procs : QSend(p)
    \/ \E p \in Procs : QSendClosed(p)
    \/ QDequeue
    \/ QDequeueClosed
    \/ QStopStart
    \/ QDrainPurge
    \/ DrainDone
    \/ StopClose

QSpec == QInit /\ [][QNext]_vars

(* --------------------------- the object tree -------------------------- *)

\* The sequent as the sequent of a child Object of the dbus adapter: its
\* supervisor is the parent Object o, whose objects map holds it beside
\* other children.  Client goroutines deliver signals to the child (Cast)
\* and delete objects below o (DeleteObject); the worker's upcall is
\* o.SequentTerminated.  The children have no listeners, so removeListeners
\* does nothing.  "s" is the sequent modelled here, "t1" the sequent
\* of another child made from the same state value (so with the same Id),
\* "t2" the sequent of a child with another state value, "nil" no sequent
\* (a placeholder).

\* names of the children of o, and of the children's children
ChildNames == {"a", "b"}
GrandNames == {"c"}

\* the address of the state value of another child
OtherPointer == ValPointer + 64

\* obj.sequent.Id() of a child with sequent sq
SequentId(sq) == IF sq = "t2" THEN OtherPointer ELSE Id

\* an entry of o.objects: the child's sequent, the names in the child's own
\* objects map, and the function that made the Object
Child(sq, kids, by) == [sequent |-> sq, kids |-> kids, by |-> by]

\* Object.hasActions
hasActions(obj) == obj.sequent # "nil"

\* Object.hasChildren
hasChildren(obj) == obj.kids # {}

\* o.hasActions() and o.parent != nil for the Object o itself
OHasActions == okind = "object"
OHasParent == okind # "root"

\* object := NewObject(name, nil, o, o.bus); object.objects = obj.objects
Placeholder(obj, by) == Child("nil", obj.kids, by)

\* a SequentTerminated that drops the dead child together with its children
SequentTerminatedDrop(objs, id) ==
    LET dead(n) == hasActions(objs[n]) /\ SequentId(objs[n].sequent) = id
    IN  [n \in { m \in DOMAIN objs : ~dead(m) } |-> objs[n]]

\* Object.SequentTerminated, the map it stores in o.objects: a child with
\* a sequent whose Id is id is left out if it has no children and replaced
\* by a placeholder if it has, every other entry is copied
SequentTerminated(objs, id) ==
    LET dead(n) == hasActions(objs[n]) /\ SequentId(objs[n].sequent) = id
        kept == { n \in DOMAIN objs : dead(n) => hasChildren(objs[n]) }
    IN  [n \in kept |-> IF dead(n)
                        THEN Placeholder(objs[n], "SequentTerminated")
                        ELSE objs[n]]

\* Object.rmChildObject after obj.terminate() returned, the map it stores:
\* a child without sequent and without children is deleted; for one with
\* children the placeholder is assigned to the local obj only, so the
\* entry stays as it is
rmChildObject(objs, name) ==
    IF name \notin DOMAIN objs THEN objs
    ELSE IF hasActions(objs[name]) \/ hasChildren(objs[name]) THEN objs
    ELSE [n \in DOMAIN objs \ {name} |-> objs[n]]

\* if !o.hasActions() && o.parent != nil { o.parent.rmChildObject(o.name) }
\* at the end of SequentTerminated and rmChildObject, with objs stored in
\* o.objects: the parent deletes o when o has no children left
AskParent(objs) ==
    IF ~OHasActions /\ OHasParent /\ DOMAIN objs = {} THEN FALSE ELSE inParent

\* the children o can have when the sequent starts: the child with the
\* sequent under one name, and under the other name nothing or any other
\* child
InitialObjects ==
    { f \in UNION { [D -> { Child(sq, k, "NewObject") :
                              sq \in {"nil", "s", "t1", "t2"},
                              k \in SUBSET GrandNames }] :
                    D \in SUBSET ChildNames } :
        Cardinality({ n \in DOMAIN f : f[n].sequent = "s" }) = 1 }

TreeInit ==
    /\ pc = [p \in Procs |-> "idle"]
    /\ nops = [p \in Procs |-> 0]
    /\ cur = [p \in Procs |-> NoReq]
    /\ curReason = [p \in Procs |-> NoErr]
    /\ late = [p \in Procs |-> FALSE]
    /\ ret = NoRet
    /\ queue = << >>
    /\ closed = FALSE
    /\ running = InitRunning
    /\ port = [r \in RIds |-> "none"]
    /\ wpc = "select"
    /\ req = NoReq
    /\ wreason = NoErr
    /\ inDefer = FALSE
    /\ executing = 0
    /\ enq = << >>
    /\ handled = << >>
    /\ purged = << >>
    /\ notified = << >>
    /\ deaths = << >>
    /\ crashed = NoErr
    /\ limit = QueueCap
    /\ qptr = NewQueue(limit)
    /\ val = ValPointer
    /\ objects \in InitialObjects
    /\ lock = 0
    /\ okind \in {"root", "placeholder", "object"}
    /\ inParent = OHasParent

\* Signal.Deliver: a Cast to the child's sequent, by a goroutine that is
\* not inside rmChildObject
Deliver(p) == lock # p /\ CastStart(p)

\* o.DeleteObject(path) for the path of child name, up to the lock of
\* rmChildObject: delObject looks the name up in o.objects and returns if
\* it is not there.  The paths deleted are those of the child with the
\* sequent, of placeholders and of names o does not have.
DeleteObject(p, name) ==
    /\ Alive
    /\ MayStart(p)
    /\ lock # p
    /\ name \in DOMAIN objects => objects[name].sequent \in {"nil", "s"}
    /\ nops' = [nops EXCEPT ![p] = @ + 1]
    /\ IF name \in DOMAIN objects
       THEN /\ pc' = [pc EXCEPT ![p] = "rm_lock"]
            /\ cur' = [cur EXCEPT ![p] =
                          [NoReq EXCEPT !.rid = <<p, nops[p] + 1>>,
                                        !.kind = "delete", !.method = name]]
       ELSE UNCHANGED <<pc, cur>>
    /\ ret' = NoRet
    /\ UNCHANGED <<curReason, late, queue, closed, running, port, workerVars,
                   executing, ghostVars, notified, crashed, limit, qptr, val,
                   treeVars>>

\* rmChildObject: o.objects.Update takes the write lock.  If the child has
\* a sequent, obj.terminate() sends on its kill channel with the lock
\* held; otherwise the map is stored, the lock released and the parent of
\* o asked, all without blocking.
RmLock(p) ==
    LET name == cur[p].method IN
    /\ Alive
    /\ pc[p] = "rm_lock"
    /\ lock = 0
    /\ name \in DOMAIN objects => objects[name].sequent \in {"nil", "s"}
    /\ IF name \in DOMAIN objects /\ hasActions(objects[name])
       THEN /\ lock' = p
            /\ pc' = [pc EXCEPT ![p] = "kill"]
            /\ curReason' = [curReason EXCEPT ![p] = NoErr]
            /\ UNCHANGED <<cur, late, objects, inParent>>
       ELSE /\ objects' = rmChildObject(objects, name)
            /\ inParent' = AskParent(objects')
            /\ Leave(p)
            /\ lock' = lock
    /\ ret' = NoRet
    /\ UNCHANGED <<nops, queue, closed, running, port, workerVars, executing,
                   ghostVars, notified, crashed, limit, qptr, val, okind>>

\* rmChildObject after obj.sequent.Terminate(nil) returned (the worker's
\* KillRecv): the child has a sequent, so the copy of the map is stored as
\* it is, the lock is released and the parent of o asked
RmUnlock(p) ==
    /\ Alive
    /\ lock = p
    /\ pc[p] = "idle"
    /\ lock' = 0
    /\ inParent' = AskParent(objects)
    /\ ret' = NoRet
    /\ UNCHANGED <<procVars, queue, closed, running, port, workerVars,
                   executing, ghostVars, notified, crashed, limit, qptr, val,
                   objects, okind>>

\* sequent.terminate with the Object o as supervisor:
\* o.SequentTerminated(reason, a.Id()) takes the write lock of o.objects,
\* stores the new map, releases the lock and asks the parent of o
Upcall ==
    /\ Alive
    /\ wpc = "notify"
    /\ lock = 0
    /\ notified' = Append(notified, [reason |-> wreason, id |-> Id])
    /\ objects' = SequentTerminated(objects, Id)
    /\ inParent' = AskParent(objects')
    /\ wpc' = "drain"
    /\ ret' = NoRet
    /\ UNCHANGED <<procVars, queue, closed, running, port, req, wreason,
                   inDefer, executing, ghostVars, crashed, limit, qptr, val,
                   lock, okind>>

\* the steps of a goroutine that is inside Cast or rmChildObject
TreeClientStep(p) ==
    \/ Enqueue(p)
    \/ EnqueueClosed(p)
    \/ RmLock(p)
    \/ RmUnlock(p)

\* the worker of the child's sequent, its upcall going to o
TreeWorkerStep ==
    \/ Dequeue
    \/ DequeueClosed
    \/ KillRecv
    \/ KillStore
    \/ HandlerReturn
    \/ HandlerPanic
    \/ RecoverStore
    \/ RecoverClose
    \/ Upcall
    \/ DrainPurge
    \/ DrainClosed
    \/ DrainDone
    \/ StopClose

TreeNext ==
    \/ \E p \in Procs : Started < MaxLiveOps /\ Deliver(p)
    \/ \E p \in Procs : \E name \in ChildNames :
          Started < MaxLiveOps /\ DeleteObject(p, name)
    \/ \E p \in Procs : TreeClientStep(p)
    \/ TreeWorkerStep

\* the goroutines are scheduled fairly, and a goroutine waiting for a
\* sync.Mutex that stays free gets it
TreeSpec ==
    /\ TreeInit
    /\ [][TreeNext]_vars
    /\ WF_vars(TreeWorkerStep)
    /\ \A p \in Procs : WF_vars(TreeClientStep(p))

(* ------------------------------ properties ---------------------------- *)

Range(s) == { s[i] : i \in DOMAIN s }

\* position of x in a sequence without repetitions
Pos(s, x) == CHOOSE i \in DOMAIN s : s[i] = x

\* request r is a Call or Cast that newRequest accepts
ValidRequest(r) ==
    /\ r.kind \in {"call", "cast"}
    /\ newRequestErr(r.method, r.args) = NoErr

\* a Call returned in the last step after its handler was invoked and panicked
CrashedCallReturned ==
    /\ ret.req.kind = "call"
    /\ ret.req.rid \in Range(handled)
    /\ Lookup(ret.req.method).body = "panic"

\* C1: handlers are invoked in the order in which the requests entered the
\* mailbox: every handled request was enqueued, handled requests appear in
\* their enqueue order (so two requests of one producer keep their order),
\* and as long as nothing was purged the handled requests are exactly the
\* first requests enqueued.
HandlerOrderIsEnqueueOrder ==
    /\ \A i \in DOMAIN handled : handled[i] \in Range(enq)
    /\ \A i, j \in DOMAIN handled :
          i < j => Pos(enq, handled[i]) < Pos(enq, handled[j])
    /\ purged = << >> =>
          \A i \in DOMAIN handled : i <= Len(enq) /\ handled[i] = enq[i]

\* three requests handled, two of them issued one after the other by the
\* same producer, the third by another producer
HandlerOrderWitness ==
    /\ Len(handled) >= 3
    /\ \E i, j, k \in DOMAIN handled :
          /\ i < j
          /\ handled[i][1] = handled[j][1]
          /\ handled[k][1] # handled[i][1]

\* C2: at most one handler of the sequent is executing at any moment.
AtMostOneHandler == executing <= 1

\* a handler is executing while two clients are inside Call or Cast
AtMostOneHandlerWitness ==
    /\ executing = 1
    /\ \E p, q \in Procs :
          /\ p # q
          /\ pc[p] \in {"enqueue", "await"}
          /\ pc[q] \in {"enqueue", "await"}

\* C3: SequentTerminated is invoked at most once for the sequent.
NotifiedAtMostOnce == Len(notified) <= 1

\* C4: a Call whose request is in the mailbox returns: no caller is left
\* waiting on a reply channel that is still open once the worker goroutine
\* has exited, when nothing can send on that channel or close it any more.
NoCallerStranded ==
    ~(/\ wpc = "exited"
      /\ \E p \in Procs : pc[p] = "await" /\ port[cur[p].reply] = "open")

\* C5: every request placed in the mailbox is delivered to its handler or
\* has its Purged() invoked, never both and never neither: no request is
\* in both logs or twice in one, and once the worker has exited every
\* request that entered the mailbox is in one of them.
ExactlyOneOutcome ==
    /\ \A i \in DOMAIN handled : \A j \in DOMAIN purged : handled[i] # purged[j]
    /\ \A i, j \in DOMAIN handled : i # j => handled[i] # handled[j]
    /\ \A i, j \in DOMAIN purged : i # j => purged[i] # purged[j]
    /\ wpc = "exited" =>
          \A i \in DOMAIN enq : enq[i] \in Range(handled) \cup Range(purged)

\* C6: a valid Call or Cast begun after the supervisor was notified returns
\* ErrSequentStop from its Running() check: it never goes on to enqueue,
\* its request is not in the mailbox and no handler was run for it.
LateRequestsRejected ==
    /\ \A p \in Procs :
          pc[p] \in {"enqueue", "await"} => ~late[p]
    /\ ret.late /\ ValidRequest(ret.req) =>
          /\ ret.vals = << >> /\ ret.err = ErrSequentStop
          /\ ret.req.rid \notin Range(enq)
          /\ ret.req.rid \notin Range(handled)
          /\ \A i \in DOMAIN queue : queue[i].rid # ret.req.rid

\* a valid Call begun after the upcall that followed a handler panic has
\* just returned
LateRequestsWitness ==
    /\ ret.late
    /\ ValidRequest(ret.req)
    /\ ret.req.kind = "call"
    /\ \E k \in DOMAIN deaths : deaths[k].cause = "handler"

\* C7: the running flag is true until the worker has received a kill
\* reason or recovered a fault, it is false once the supervisor has been
\* notified, and once false it is never true again.
RunningMonotonic ==
    /\ [](deaths = << >> => running)
    /\ [](notified # << >> => ~running)
    /\ [][~running => ~running']_vars

\* the flag is false and a client's Running() check has just seen it so,
\* while another client that saw it true is still about to enqueue
RunningFalseWitness ==
    /\ ~running
    /\ ret.err = ErrSequentStop
    /\ \E q \in Procs : pc[q] = "enqueue"

CrashedCallReturnsStop ==
    CrashedCallReturned => ret.err = ErrSequentStop

\* C10: every SequentTerminated upcall carries the sequent's Id and, as
\* reason, the error some Terminate passed or the fault some handler
\* raised.
UpcallIdentifiesDeath ==
    \A i \in DOMAIN notified :
        /\ notified[i].id = Id
        /\ \E k \in DOMAIN deaths :
              /\ deaths[k].cause \in {"kill", "handler"}
              /\ deaths[k].reason = notified[i].reason

\* C11: under fair scheduling of the goroutines, once the worker has
\* received a kill reason or recovered the panic of a handler,
\* SequentTerminated is eventually invoked for the sequent.
DeathLeadsToUpcall ==
    (\E k \in DOMAIN deaths : deaths[k].cause \in {"kill", "handler"})
        ~> (notified # << >>)

\* the supervisor has been notified once after a kill reason was received,
\* or once after a handler panicked
DeathUpcallWitness ==
    /\ Len(notified) = 1
    /\ Len(deaths) = 1
    /\ deaths[1].cause \in {"kill", "handler"}
    /\ notified[1].reason = deaths[1].reason

\* a Call or Cast returned in the last step
CallOrCastReturned == ret.req.kind \in {"call", "cast"}

\* C12: Call and Cast return the handler's results, a validation error,
\* ErrSequentStop or ErrSequentDied, and never raise a fault in the calling
\* goroutine, whatever the interleaving with a Terminate or a handler panic.
CallersNeverFault ==
    /\ \A p \in Procs : pc[p] # "panicked"
    /\ crashed # ErrSendOnClosed
    /\ CallOrCastReturned =>
          \/ ret.err = NoErr
          \/ ret.err = newRequestErr(ret.req.method, ret.req.args)
          \/ ret.err \in {ErrSequentStop, ErrSequentDied}

\* C13: the supervisor upcall completes before the mailbox is stopped:
\* while the worker is inside Queue.Stop, and whenever a request has been
\* purged or the channel closed, every termination so far has been notified,
\* and a Call that returns ErrSequentDied from a purge returns after it.
UpcallBeforeStop ==
    /\ wpc \in {"drain", "close"} => Len(notified) >= 1
    /\ (purged # << >> \/ closed) => notified # << >>
    /\ (/\ ret.req.kind = "call"
        /\ ret.err = ErrSequentDied
        /\ ret.req.rid \in Range(purged)) => notified # << >>

\* a Call whose request was purged from the mailbox has just returned
\* ErrSequentDied
UpcallBeforeStopWitness ==
    /\ ret.req.kind = "call"
    /\ ret.err = ErrSequentDied
    /\ ret.req.rid \in Range(purged)
    /\ notified # << >>

\* C14: SequentTerminated is invoked only when the running flag is already
\* false and, in the deferred function after a handler panic, only when the
\* reply channel of the request that was being handled is already closed.
UpcallAfterStoreAndClose ==
    [][Len(notified') > Len(notified) =>
          /\ ~running
          /\ (inDefer /\ req.reply # NilPort) =>
                port[req.reply] \in {"closed", "sent+closed"}]_vars

\* the supervisor was notified of the panic of a Call's handler
UpcallAfterCloseWitness ==
    /\ notified # << >>
    /\ inDefer
    /\ req.kind = "call"
    /\ Lookup(req.method).body = "panic"
    /\ deaths[1].cause = "handler"
    /\ port[req.reply] = "closed"

\* C15: Terminate does not return before the worker has received its
\* reason from the kill channel, and, under fair scheduling, a Terminate
\* blocked on the kill channel of a sequent that is still running returns.
TerminateIsRendezvous ==
    /\ [](ret.req.kind = "terminate" =>
            \E k \in DOMAIN deaths :
                deaths[k] = [cause |-> "kill",
                             reason |-> TermReason(ret.req.rid[1], ret.req.rid[2])])
    /\ \A p \in Procs : (pc[p] = "kill") ~> (pc[p] # "kill" \/ ~running)

\* a Terminate issued while a handler was executing has returned
TerminateReturnedWitness ==
    /\ ret.req.kind = "terminate"
    /\ ~ret.late
    /\ handled # << >>
    /\ wpc = "kill_store"

\* C16: a valid Cast that passes its Running() check returns nil in the
\* step that places its request in the mailbox, before the handler runs;
\* no client waits for the handler of a Cast, and when that handler has
\* panicked the fault is what the supervisor was told.
CastReturnsOnEnqueue ==
    /\ (ret.req.kind = "cast" /\ ValidRequest(ret.req)) =>
          \/ /\ ret.err = NoErr
             /\ ret.vals = << >>
             /\ ret.req.rid = enq[Len(enq)]
             /\ ret.req.rid \notin Range(handled)
          \/ /\ ret.err = ErrSequentStop
             /\ ret.req.rid \notin Range(enq)
    /\ \A p \in Procs : pc[p] = "await" => cur[p].kind = "call"
    /\ (/\ inDefer
        /\ req.kind = "cast"
        /\ Lookup(req.method).body = "panic"
        /\ wpc \in {"drain", "close", "exited"}) =>
          /\ notified[Len(notified)].reason = ErrIndexOutOfRange
          /\ \A p \in Procs : cur[p].rid # req.rid

\* the handler of a Cast panicked after the Cast returned, the supervisor
\* was notified and the worker has exited
CastCrashWitness ==
    /\ wpc = "exited"
    /\ inDefer
    /\ req.kind = "cast"
    /\ Lookup(req.method).body = "panic"
    /\ Len(notified) = 1

\* C17: while the sequent has not begun to terminate, a Call of a method
\* that returns its argument returns exactly that argument with a nil
\* error and the running flag is still true, whatever Calls and Casts came
\* before; and whenever such a Call returns without error it returns its
\* argument.
IdentityCallReturnsArgument ==
    (/\ ret.req.kind = "call"
     /\ ValidRequest(ret.req)
     /\ Lookup(ret.req.method).body = "identity") =>
        /\ deaths = << >> =>
              ret.vals = ret.req.args /\ ret.err = NoErr /\ running
        /\ ret.err = NoErr => ret.vals = ret.req.args

\* the third operation of a client, Call("Public", true), has returned
\* true after two requests were handled, on a sequent still running
IdentityCallWitness ==
    /\ ret.req.kind = "call"
    /\ ret.req.method = "Public"
    /\ ret.req.rid[2] >= 3
    /\ ret.vals = <<BoolTrue>>
    /\ ret.err = NoErr
    /\ Len(handled) >= 2
    /\ running

\* names absent from the method table: one nothing registers, the
\* unexported method of the state value, and the table entries init drops
AbsentNames == {"Missing", "private"} \cup { e.name : e \in TableEntries }

\* C18: a Call or Cast with a name that is absent from the method table (not
\* registered, unexported, or dropped by init) returns ErrUnknownMethod and
\* goes no further, whatever its arguments.
UnknownMethodRejected ==
    /\ (CallOrCastReturned /\ ret.req.method \in AbsentNames) =>
          ret.err = ErrUnknownMethod /\ ret.vals = << >>
    /\ \A p \in Procs :
          pc[p] \in {"enqueue", "await"} => cur[p].method \notin AbsentNames
    /\ \A n \in AbsentNames : \A c \in CallCommands \cup CastCommands :
          newRequestErr(n, c[2]) = ErrUnknownMethod

\* Call("NotFunction") has returned ErrUnknownMethod
UnknownMethodWitness ==
    /\ ret.req.kind = "call"
    /\ ret.req.method = "NotFunction"
    /\ ret.err = ErrUnknownMethod

\* C19: a Call or Cast that gives K arguments to a method with P declared
\* parameters besides the receiver, K # P, returns the arity error with
\* need = P and have = K.
ArityErrorCounts ==
    (/\ CallOrCastReturned
     /\ \E m \in Methods : m.name = ret.req.method
     /\ Len(ret.req.args) # Len(Lookup(ret.req.method).params)) =>
        ret.err = Err("Not enough arguments",
                      Len(Lookup(ret.req.method).params), Len(ret.req.args), "", "")

\* a Call or Cast returned in this step with the error of newRequest
ValidationRejected(r) ==
    /\ r.req.kind \in {"call", "cast"}
    /\ newRequestErr(r.req.method, r.req.args) # NoErr

\* C20: a Call or Cast that fails validation returns the validation error
\* in a step that changes nothing of the sequent (mailbox, running flag,
\* reply channels, worker), and only requests that passed validation are
\* ever sent to the mailbox or held in it.
ValidationHasNoEffect ==
    /\ [](\A p \in Procs :
            pc[p] \in {"enqueue", "await"} => ValidRequest(cur[p]))
    /\ [](\A i \in DOMAIN queue : ValidRequest(queue[i]))
    /\ [][ValidationRejected(ret') =>
            /\ ret'.err = newRequestErr(ret'.req.method, ret'.req.args)
            /\ UNCHANGED <<pc, cur, queue, closed, running, port, workerVars,
                           executing, ghostVars, notified, crashed>>]_vars

\* after two operations that left the mailbox untouched while the sequent
\* was running (rejected by validation), the third operation of the
\* client, a valid Call, has succeeded
ValidationNoEffectWitness ==
    /\ ret.req.kind = "call"
    /\ ret.req.rid[2] >= 3
    /\ ret.err = NoErr
    /\ ret.vals = ret.req.args
    /\ Len(enq) = 1
    /\ deaths = << >>
    /\ running

\* C26: Id() returns the same nonzero value in every state, before and
\* after any Call, Cast, Terminate or handler panic, and it is the value
\* every upcall carried.
IdStableNonzero ==
    /\ Id # 0
    /\ Id = ValPointer
    /\ \A i \in DOMAIN notified : notified[i].id = Id

\* requests were handled, a handler panicked and the supervisor was told
IdStableWitness ==
    /\ Len(handled) >= 2
    /\ \E k \in DOMAIN deaths : deaths[k].cause = "handler"
    /\ notified # << >>

\* C27: once the flag is false and the supervisor has been notified, the
\* worker invokes no further handler.
NoHandlerAfterUpcall ==
    [][(~running /\ notified # << >>) => handled' = handled]_vars

\* C28: purging a Cast, which has no reply channel, does not fault:
\* close(nil) is never executed, neither as a fault the worker recovers
\* nor as one that ends the process.
CastPurgeNoFault ==
    /\ crashed # ErrCloseNilChannel
    /\ \A k \in DOMAIN deaths : deaths[k].reason # ErrCloseNilChannel

\* C29: the channel of the sequent's queue is closed at most once:
\* whenever Queue.Stop is about to execute close(q.queue), the channel is
\* still open.
QueueClosedOnce == wpc = "close" => ~closed

\* Queue.Stop runs again on the queue it already closed
QueueClosedOnceWitness ==
    /\ closed
    /\ wpc = "drain"
    /\ Len(notified) >= 2

\* C30: a reply channel is never closed after a value was sent on it and
\* never closed twice.
ReplyPortOnce ==
    /\ \A r \in RIds : port[r] # "sent+closed"
    /\ crashed # ErrCloseClosedChannel

\* C21: a queue of capacity N never holds fewer than 0 or more than N
\* messages, and a send completes only in a state in which the buffer has
\* room: a producer that finds N messages resident stays in its send until
\* a dequeue or the drain of Stop has removed one.
LenWithinCap ==
    /\ [](~qptr.nil => (0 <= QLen /\ QLen <= QCap))
    /\ [][enq' # enq => QLen < QCap]_vars

\* a producer is blocked in its send on a full queue of capacity 2
LenWithinCapWitness ==
    /\ QCap = 2
    /\ QLen = 2
    /\ ~closed
    /\ \E p \in Procs : pc[p] = "enqueue"

\* C22: as long as nothing was purged the queue is a bounded FIFO
\* sequence: the messages received are the first messages sent, in their
\* order, a Dequeue returns the oldest message not yet received, the
\* buffer holds the messages sent after those, Len is their number and Cap
\* is the limit given to NewQueue.
QueueIsFifo ==
    (~qptr.nil /\ purged = << >>) =>
        /\ Len(handled) <= Len(enq)
        /\ \A i \in DOMAIN handled : handled[i] = enq[i]
        /\ QLen = Len(enq) - Len(handled)
        /\ \A i \in DOMAIN queue : queue[i].rid = enq[Len(handled) + i]
        /\ (ret.p = 0 /\ ret.req.kind = "msg") =>
              ret.req.rid = enq[Len(handled)]
        /\ QCap = limit

\* two messages were received and a third is resident
QueueIsFifoWitness ==
    /\ Len(handled) = 2
    /\ QLen = 1
    /\ ret.p = 0
    /\ ret.req.kind = "msg"
    /\ purged = << >>

\* C23: Queue.Stop purges the resident messages oldest first, each once,
\* and returns from drain only when none is left; the messages received
\* before Stop, the purged ones and those received after it are, in this
\* order, the first messages sent; a Dequeue reports the end of the stream
\* only on the closed queue, when every message sent was received or
\* purged.
StopPurgesInOrder ==
    /\ [][(wpc = "drain" /\ purged' # purged) =>
            /\ purged' = Append(purged, Head(queue).rid)
            /\ queue' = Tail(queue)]_vars
    /\ [][(wpc = "drain" /\ wpc' = "close") => queue = << >>]_vars
    /\ [](\E k \in 0..Len(handled) :
            LET out == SubSeq(handled, 1, k) \o purged
                         \o SubSeq(handled, k + 1, Len(handled))
            IN  /\ Len(out) <= Len(enq)
                /\ \A i \in DOMAIN out : out[i] = enq[i])
    /\ [](ret.req = failmsg =>
            /\ closed
            /\ QLen = 0
            /\ Len(handled) + Len(purged) = Len(enq))

\* Stop purged two messages and the Dequeue after it found the queue closed
StopPurgesWitness ==
    /\ Len(purged) = 2
    /\ handled = << >>
    /\ ret.req = failmsg

\* C24: after Queue.Stop no send places a message in the queue, and no
\* send faults: the producer is told of the failure.
StoppedEnqueueFails ==
    /\ closed => queue = << >>
    /\ crashed # ErrSendOnClosed

\* C25: NewQueue(limit) is nil for every limit below 1 and, for every
\* other limit, a queue whose Cap() is limit and which is empty until
\* something is sent.
NewQueueContract ==
    /\ limit < 1 => qptr = NilQueue
    /\ limit >= 1 => (~qptr.nil /\ QCap = limit)
    /\ (limit >= 1 /\ enq = << >>) => QLen = 0

\* NewQueue was called with a limit below 1
NewQueueNilWitness ==
    /\ limit < 1
    /\ qptr.nil

\* the sequent has begun to terminate: the worker received a kill reason
\* or recovered a fault
Terminating == deaths # << >>

\* the Terminated state: run has returned and the mailbox is closed
Terminated == wpc = "exited" /\ closed

\* C31: under fair scheduling a sequent that has begun to terminate (kill
\* reason received or handler panic recovered) reaches the Terminated
\* state, worker exited and mailbox closed, and its running flag never
\* becomes true again.
TerminationCompletes ==
    /\ Terminating ~> Terminated
    /\ [][~running => ~running']_vars

\* C32: a Call or Cast that newRequest rejects returns the error of
\* newRequest, never ErrSequentStop, also when the running flag is false
\* and the supervisor has been notified: the method is resolved and the
\* arguments are checked before the flag is read.
ValidationBeforeRunning ==
    ValidationRejected(ret) =>
        /\ ret.err = newRequestErr(ret.req.method, ret.req.args)
        /\ ret.err # ErrSequentStop
        /\ ret.vals = << >>

\* a Call with an unknown method, issued after the supervisor was notified
\* and with the running flag false, has returned ErrUnknownMethod
ValidationBeforeRunningWitness ==
    /\ ret.req.kind = "call"
    /\ ret.late
    /\ ~running
    /\ ret.err = ErrUnknownMethod

\* the handler of the Call in run's req has panicked
HandlerPanicked ==
    /\ req.kind = "call"
    /\ Lookup(req.method).body = "panic"
    /\ wpc # "handler"

\* request r was issued by the caller of run's req after that request
LaterOfSameCaller(r) ==
    /\ r.rid[1] = req.rid[1]
    /\ r.rid[2] > req.rid[2]

\* C34: when a Call returns ErrSequentDied after its handler panicked the
\* running flag is already false, and every valid Call or Cast the same
\* caller issues afterwards returns ErrSequentStop without entering the
\* mailbox.
DiedCallThenStopped ==
    /\ (CrashedCallReturned /\ ret.err = ErrSequentDied) => ~running
    /\ HandlerPanicked =>
          /\ ~running
          /\ \A p \in Procs :
                LaterOfSameCaller(cur[p]) => pc[p] \notin {"enqueue", "await"}
          /\ (CallOrCastReturned /\ ValidRequest(ret.req)
                /\ LaterOfSameCaller(ret.req)) =>
                /\ ret.err = ErrSequentStop
                /\ ret.req.rid \notin Range(enq)

\* the caller whose Call died with its handler has issued a valid Call
\* next, which returned ErrSequentStop
DiedCallThenStoppedWitness ==
    /\ HandlerPanicked
    /\ ret.req.kind = "call"
    /\ ValidRequest(ret.req)
    /\ ret.req.rid = <<req.rid[1], req.rid[2] + 1>>
    /\ ret.err = ErrSequentStop

\* an earlier Terminate of client p has returned: its reason was received
\* by the worker
TerminateReturnedBefore(p) ==
    \E k \in DOMAIN deaths : \E n \in 1..(cur[p].rid[2] - 1) :
        deaths[k] = [cause |-> "kill", reason |-> TermReason(p, n)]

\* C35: when Terminate returns the running flag is already false, and no
\* Call or Cast a client issues after its own Terminate returned goes on
\* to the mailbox.
TerminateReturnsStopped ==
    /\ ret.req.kind = "terminate" => ~running
    /\ \A p \in Procs :
          pc[p] \in {"enqueue", "await"} => ~TerminateReturnedBefore(p)

\* C36: under fair scheduling every Terminate returns: no client stays
\* blocked in its send on the kill channel, whether the sequent has
\* terminated already or another Terminate is in progress.
TerminateAlwaysReturns ==
    \A p \in Procs : (pc[p] = "kill") ~> (pc[p] # "kill")

\* C37: a Call that returns values returns those of the handler invocation
\* of its own request: the reply it received is the one the worker sent
\* for the request in its hands, which is the caller's, handled last and
\* handled once.
OwnReplyOnly ==
    (ret.req.kind = "call" /\ ret.err = NoErr) =>
        /\ ret.req = req
        /\ ret.p = req.rid[1]
        /\ ret.vals = processMethodReturns(
                          HandlerReturns(Lookup(req.method), req.args))
        /\ handled[Len(handled)] = ret.req.rid
        /\ \A i \in 1..(Len(handled) - 1) : handled[i] # ret.req.rid

\* a Call has received its values while another client is inside Call,
\* its request in the mailbox
OwnReplyWitness ==
    /\ ret.req.kind = "call"
    /\ ret.err = NoErr
    /\ \E q \in Procs :
          /\ q # ret.p
          /\ pc[q] = "await"
          /\ cur[q].kind = "call"
          /\ queue # << >>
          /\ queue[1].rid = cur[q].rid

\* the entry of child n in map objs, or the absent entry
Entry(objs, n) == IF n \in DOMAIN objs THEN objs[n] ELSE Child("nil", {}, "nil")

\* C33: when SequentTerminated(reason, id) runs on the parent o, every
\* child with a sequent whose Id is id is removed if it has no children
\* and is otherwise replaced under its name by a placeholder, an Object
\* without sequent that has the dead child's children; every other entry
\* of o.objects, and every name o did not have, is as before.
DeadChildReplaced ==
    [][notified' # notified =>
         LET id == notified'[Len(notified')].id IN
         \A n \in ChildNames :
            IF /\ n \in DOMAIN objects
               /\ hasActions(objects[n])
               /\ SequentId(objects[n].sequent) = id
            THEN IF hasChildren(objects[n])
                 THEN /\ n \in DOMAIN objects'
                      /\ ~hasActions(objects'[n])
                      /\ objects'[n].kids = objects[n].kids
                      /\ objects'[n].by = "SequentTerminated"
                 ELSE n \notin DOMAIN objects'
            ELSE /\ n \in DOMAIN objects' <=> n \in DOMAIN objects
                 /\ Entry(objects', n) = Entry(objects, n)]_vars

\* the supervisor was told of the death of the child's sequent, the dead
\* child is now a placeholder made by SequentTerminated that has its
\* children, and the child with another sequent is still there
DeadChildReplacedWitness ==
    /\ notified # << >>
    /\ \E n, m \in DOMAIN objects :
          /\ objects[n] = Child("nil", GrandNames, "SequentTerminated")
          /\ objects[m].sequent = "t2"
          /\ objects[m].by = "NewObject"

\* C38: under fair scheduling the write lock of o.objects that
\* rmChildObject or SequentTerminated holds is released again, and a
\* worker that reached its upcall completes it: rmChildObject never stays
\* blocked with the lock held.
RmChildReleasesLock ==
    /\ (lock # 0) ~> (lock = 0)
    /\ (wpc = "notify") ~> (wpc # "notify")

====
